---- MODULE Spec2Model ----
(***************************************************************************)
(* Model of the Morton-coded sparse voxel store ZVoxelOctree               *)
(* (src/src/lib.rs): the ordered map `data`, the deferred mutation queue   *)
(* `mutation_queue`, the drain apply_mutations, the compaction compress    *)
(* and the read-only queries get / get_neighbours_prefix /                 *)
(* get_neighbours_area.                                                    *)
(*                                                                         *)
(* Keys are u64 in the source: 16 control bits followed by 3 interleaved   *)
(* bits per axis bit.  The model keeps the layout and the wrapping         *)
(* arithmetic but works with AxisBits bits per axis instead of 16, so a    *)
(* key has KeyBits = CtrlBits + 3*AxisBits bits instead of 64.             *)
(***************************************************************************)
EXTENDS Integers, Sequences, FiniteSets, Bags, TLC

\* ------------------------------------------------------------------ bounds
\* bits per axis of a coordinate (16 in the source, U16Vec3)
AxisBits == 3
\* longest mutation queue the model lets the producers build
MaxQueue == 2
\* largest radius handed to get_neighbours_area
MaxRadius == 2

\* ------------------------------------------------- constants of the source
\* width of the control field below the Morton bits (the shifts by 16)
CtrlBits == 16
\* number of tag values, 0b1111 + 1 (encode_compression asserts tag < 16)
TagCard == 16

KeyBits == CtrlBits + 3 * AxisBits
\* the powers of two the shifts and masks use
Pow2 == [n \in 0..KeyBits |-> 2 ^ n]
KeyMod == Pow2[KeyBits]
AxisMod == Pow2[AxisBits]
CtrlMod == Pow2[CtrlBits]

\* payloads (the type parameter T; compaction only compares them for equality)
Values == {1, 2}
Axis == 0..(AxisMod - 1)
AllCoords == Axis \X Axis \X Axis
\* depths for which 16 + 3*depth is a valid shift of a key (0..15 in the source)
Depths == 0..(AxisBits - 1)

\* ------------------------------------------------------- integer helpers
\* x << n on a KeyBits-wide unsigned integer: the bits shifted out are dropped
Shl(x, n) == (x % Pow2[KeyBits - n]) * Pow2[n]
\* x >> n
Shr(x, n) == x \div Pow2[n]
\* (x >> n) & 1
Bit(x, n) == (x \div Pow2[n]) % 2

Max2(a, b) == IF a >= b THEN a ELSE b
AbsDiff(a, b) == IF a >= b THEN a - b ELSE b - a

\* ------------------------------------------------------------ MortonCodec
\* EncodeFrom as it would be if the axis index were left out of the shift
RECURSIVE EncodeFrom_noaxis(_, _)
EncodeFrom_noaxis(coords, b) ==
    IF b >= AxisBits THEN 0
    ELSE Max2(Bit(coords[1], b), Max2(Bit(coords[2], b), Bit(coords[3], b)))
             * Pow2[b * 3 + CtrlBits]
         + EncodeFrom_noaxis(coords, b + 1)

\* the loop `for b in 0..16` of encode_position, from bit b on: bit b of
\* axis i goes to bit b*3 + i + 16 of the key
RECURSIVE EncodeFrom(_, _)
EncodeFrom(coords, b) ==
    IF b >= AxisBits THEN 0
    ELSE Bit(coords[1], b) * Pow2[b * 3 + 0 + CtrlBits]
         + Bit(coords[2], b) * Pow2[b * 3 + 1 + CtrlBits]
         + Bit(coords[3], b) * Pow2[b * 3 + 2 + CtrlBits]
         + EncodeFrom(coords, b + 1)

\* encode_position, tabulated once over every coordinate (the table is indexed
\* by x + 2^16 y + 2^32 z)
EncodeTable ==
    [n \in 0..(AxisMod * AxisMod * AxisMod - 1) |->
        EncodeFrom(<<n % AxisMod, (n \div AxisMod) % AxisMod, n \div (AxisMod * AxisMod)>>, 0)]

encode_position(coords) ==
    EncodeTable[coords[1] + AxisMod * coords[2] + AxisMod * AxisMod * coords[3]]

\* the loop `for b in 0..16` of decode_position, from bit b on, for axis i:
\* bit b of axis i is read back from bit (b*3 + i) + 16 of the key
RECURSIVE DecodeFrom(_, _, _)
DecodeFrom(code, i, b) ==
    IF b >= AxisBits THEN 0
    ELSE Bit(code, (b * 3 + i) + CtrlBits) * Pow2[b] + DecodeFrom(code, i, b + 1)

\* decode_position, tabulated once over every value of the Morton field (the
\* bits of the key from bit 16 up)
DecodeTable ==
    [m \in 0..(Pow2[3 * AxisBits] - 1) |->
        <<DecodeFrom(m * CtrlMod, 0, 0), DecodeFrom(m * CtrlMod, 1, 0),
          DecodeFrom(m * CtrlMod, 2, 0)>>]

decode_position(code) == DecodeTable[code \div CtrlMod]

\* code &= !0b1111; code |= compression
encode_compression(coords, compression) ==
    LET code == encode_position(coords)
    IN (code - (code % TagCard)) + compression

\* code & 0b1111
decode_compression(code) == code % TagCard

\* (code >> 16) >> (3 * depth)
prefix_at_depth(code, depth) == Shr(Shr(code, CtrlBits), 3 * depth)

\* --------------------------------------------------------------- the store
VARIABLES
    data,             \* BTreeMap<u64, T>: the entries [key, value], ascending by key
    mutation_queue,   \* SegQueue<MutationOp<T>>: pending operations, oldest first
    overflow_checks,  \* the build: TRUE when integer overflow panics (debug), FALSE when it wraps
    panicked,         \* a call has panicked; the program has stopped
    last,             \* the call made last: its name, its arguments, what it did and returned
    voxels            \* SparseVoxelOctree.voxels: the arena Vec<Voxel> of the pointer octree

vars == <<data, mutation_queue, overflow_checks, panicked, last, voxels>>

\* MutationOp::Insert { position, value } and MutationOp::Remove { position }
InsertOp(position, value) == [kind |-> "Insert", position |-> position, value |-> value]
RemoveOp(position) == [kind |-> "Remove", position |-> position, value |-> 0]

\* struct VoxelData { position, compression, payload }
VoxelData(position, compression, payload) ==
    [position |-> position, compression |-> compression, payload |-> payload]

\* ZVoxelOctree { data, mutation_queue }
Octree(d, q) == [data |-> d, mutation_queue |-> q]
Self == Octree(data, mutation_queue)

\* BTreeMap::new() / SegQueue::new()
new == Octree(<<>>, <<>>)

\* BTreeMap::keys()
MapKeys(d) == {d[n].key : n \in 1..Len(d)}
\* BTreeMap::insert(k, v): overwrite or create, keeping the keys ascending
MapInsert(d, k, v) ==
    SelectSeq(d, LAMBDA e : e.key < k) \o <<[key |-> k, value |-> v]>>
        \o SelectSeq(d, LAMBDA e : e.key > k)
\* BTreeMap::remove(&k)
MapRemove(d, k) == SelectSeq(d, LAMBDA e : e.key # k)
\* BTreeMap::range(lo..=hi): the entries with lo <= key <= hi, ascending
MapRange(d, lo, hi) == SelectSeq(d, LAMBDA e : lo <= e.key /\ e.key <= hi)

\* insert as it would be if it wrote the map at once as well as queueing
insert_eager(self, entity, coords) ==
    [self EXCEPT !.data = MapInsert(@, encode_position(coords), entity),
                 !.mutation_queue = Append(@, InsertOp(coords, entity))]

\* insert(&self, entity, coords): push one Insert on the queue
insert(self, entity, coords) ==
    [self EXCEPT !.mutation_queue = Append(@, InsertOp(coords, entity))]

\* remove(&self, coords): push one Remove on the queue
remove(self, coords) ==
    [self EXCEPT !.mutation_queue = Append(@, RemoveOp(coords))]

\* get(&self, coords): the first entry whose key shares the Morton bits of coords,
\* whatever its low 16 bits; None is <<>>, Some(v) is <<v>>
get(self, coords) ==
    LET coords_key == encode_position(coords)
        spatial_key == coords_key - (coords_key % CtrlMod)
        range == MapRange(self.data, spatial_key, spatial_key + (CtrlMod - 1))
    IN IF range # <<>>
       THEN <<VoxelData(coords, decode_compression(range[1].key), range[1].value)>>
       ELSE <<>>

\* start_code and end_code of get_neighbours_prefix; end_code is
\* ((prefix + 1) << (16 + depth*3)) - 1, whose subtraction underflows when
\* the shift has dropped the carry
PrefixRange(coords, depth) ==
    LET code == encode_position(coords)
        prefix == Shr(code, CtrlBits + depth * 3)
        start_code == Shl(prefix, CtrlBits + depth * 3)
        shifted == Shl(prefix + 1, CtrlBits + depth * 3)
    IN [start_code |-> start_code,
        underflow |-> shifted = 0,
        end_code |-> IF shifted = 0 THEN KeyMod - 1 ELSE shifted - 1]

\* get_neighbours_prefix(&self, coords, depth): every entry whose key lies in
\* [start_code, end_code], ascending; panics on the underflow in a build
\* that checks overflow
get_neighbours_prefix(self, coords, depth) ==
    LET Collect(range) ==
            [panic |-> FALSE,
             result |-> [n \in 1..Len(range) |->
                            VoxelData(decode_position(range[n].key),
                                      decode_compression(range[n].key),
                                      range[n].value)]]
        Query(r) ==
            IF r.underflow /\ overflow_checks
            THEN [panic |-> TRUE, result |-> <<>>]
            ELSE Collect(MapRange(self.data, r.start_code, r.end_code))
    IN Query(PrefixRange(coords, depth))

\* the deltas of get_neighbours_cross, in the order of the source: up, down,
\* left, right, forward, back
CrossDeltas ==
    <<<<0, 1, 0>>, <<0, -1, 0>>, <<-1, 0, 0>>, <<1, 0, 0>>, <<0, 0, 1>>, <<0, 0, -1>>>>

\* (n as i32 + delta) as u16: the sum cannot overflow an i32, and the cast
\* keeps the low bits of the axis width
AsAxis(n) == n % AxisMod

\* the six n_coords of get_neighbours_cross
CrossCoords(coords) ==
    [k \in 1..6 |-> <<AsAxis(coords[1] + CrossDeltas[k][1]),
                      AsAxis(coords[2] + CrossDeltas[k][2]),
                      AsAxis(coords[3] + CrossDeltas[k][3])>>]

\* get_neighbours_cross(&self, coords): get of each n_coords, in order
get_neighbours_cross(self, coords) ==
    [k \in 1..6 |-> get(self, CrossCoords(coords)[k])]

\* usize::next_power_of_two
RECURSIVE NextPow2From(_, _)
NextPow2From(n, p) == IF p >= n THEN p ELSE NextPow2From(n, 2 * p)
next_power_of_two(n) == NextPow2From(n, 1)

\* usize::ilog2
RECURSIVE ilog2(_)
ilog2(n) == IF n <= 1 THEN 0 ELSE 1 + ilog2(n \div 2)

\* U16Vec3::chebyshev_distance
chebyshev_distance(a, b) ==
    Max2(AbsDiff(a[1], b[1]), Max2(AbsDiff(a[2], b[2]), AbsDiff(a[3], b[3])))

\* get_neighbours_area(&self, coords, radius): the prefix query of depth
\* ilog2(next_power_of_two(radius)), filtered by distance <= radius as u16
get_neighbours_area(self, coords, radius) ==
    LET depth == ilog2(next_power_of_two(radius))
        prefix_neighbours == get_neighbours_prefix(self, coords, depth)
    IN [panic |-> prefix_neighbours.panic,
        result |-> SelectSeq(prefix_neighbours.result,
                             LAMBDA voxel :
                                chebyshev_distance(coords, voxel.position)
                                    <= radius % AxisMod)]

\* the walk as it would be if it deleted nothing
RemoveWalk_keep(d, position, depth) == [data |-> d, panic |-> FALSE]

\* ------------------------------------------------------------ apply_mutations
\* the loop `for depth in 1..16` of the Remove arm, from `depth` on: at every
\* depth whose prefix query returns exactly one entry, that entry is removed,
\* and the loop goes on to the next depth
RECURSIVE RemoveWalk(_, _, _)
RemoveWalk(d, position, depth) ==
    IF depth > AxisBits - 1 THEN [data |-> d, panic |-> FALSE]
    ELSE LET Drop(compressed_voxel) ==
                 MapRemove(d, encode_compression(compressed_voxel.position,
                                                 compressed_voxel.compression))
             Step(prefix) ==
                 IF prefix.panic THEN [data |-> d, panic |-> TRUE]
                 ELSE RemoveWalk(IF Len(prefix.result) = 1
                                 THEN Drop(prefix.result[1])
                                 ELSE d,
                                 position, depth + 1)
         IN Step(get_neighbours_prefix(Octree(d, <<>>), position, depth))

\* the Remove arm: delete the full-resolution key if it is stored, else walk
RemoveArm(d, position) ==
    LET key == encode_position(position)
    IN IF key \in MapKeys(d)
       THEN [data |-> MapRemove(d, key), panic |-> FALSE]
       ELSE RemoveWalk(d, position, 1)

\* the Insert arm: data.insert(encode_position(position), value)
InsertArm(d, position, value) ==
    [data |-> MapInsert(d, encode_position(position), value), panic |-> FALSE]

\* one iteration of `while let Some(op) = self.mutation_queue.pop()`
ApplyOp(d, op) ==
    IF op.kind = "Insert" THEN InsertArm(d, op.position, op.value)
    ELSE RemoveArm(d, op.position)

\* pop as it would be if it took the newest operation
pop_newest(q) == [op |-> q[Len(q)], rest |-> SubSeq(q, 1, Len(q) - 1)]

\* pop as it would be if a second pending operation were discarded with the first
pop_two(q) == [op |-> Head(q), rest |-> IF Len(q) >= 2 THEN Tail(Tail(q)) ELSE Tail(q)]

\* SegQueue::pop on a non-empty queue: the oldest operation and the queue left
pop(q) == [op |-> Head(q), rest |-> Tail(q)]

\* the while loop: pop the oldest operation, apply it, repeat until the queue
\* is empty; `log` lists the operations popped so far
RECURSIVE Drain(_, _, _)
Drain(d, q, log) ==
    IF q = <<>> THEN [data |-> d, mutation_queue |-> q, panic |-> FALSE, log |-> log]
    ELSE LET Applied(popped, r) ==
                 IF r.panic
                 THEN [data |-> r.data, mutation_queue |-> popped.rest, panic |-> TRUE,
                       log |-> Append(log, popped.op)]
                 ELSE Drain(r.data, popped.rest, Append(log, popped.op))
             Popped(popped) == Applied(popped, ApplyOp(d, popped.op))
         IN Popped(pop(q))

\* apply_mutations(&mut self)
apply_mutations(self) == Drain(self.data, self.mutation_queue, <<>>)

\* ------------------------------------------------------------------ compress
\* Collapse as it would be if the compacted entry were never inserted
Collapse_noinsert(d, neighbours, prefix, depth) ==
    LET full == {encode_position(neighbours[m].position) : m \in 1..Len(neighbours)}
    IN SelectSeq(d, LAMBDA e : e.key \notin full)

\* Collapse as it would be if only the last neighbour's key were removed
Collapse_droplast(d, neighbours, prefix, depth) ==
    MapInsert(MapRemove(d, encode_position(neighbours[Len(neighbours)].position)),
              Shl(prefix, KeyBits - (3 * AxisBits - depth * 3)) + (depth % TagCard),
              neighbours[1].payload)

\* Collapse as it would be if the level were written above the tag bits
Collapse_widetag(d, neighbours, prefix, depth) ==
    MapInsert(SelectSeq(d, LAMBDA e :
                  e.key \notin {encode_position(neighbours[m].position) :
                                   m \in 1..Len(neighbours)}),
              Shl(prefix, KeyBits - (3 * AxisBits - depth * 3)) + (depth % TagCard) * TagCard,
              neighbours[1].payload)

\* the collapse of one region: remove the full-resolution key of every
\* neighbour, then insert one entry keyed (prefix << (64 - (48 - depth*3))) | depth
Collapse(d, neighbours, prefix, depth) ==
    LET first_value == neighbours[1].payload
        full == {encode_position(neighbours[m].position) : m \in 1..Len(neighbours)}
        compressed_code ==
            Shl(prefix, KeyBits - (3 * AxisBits - depth * 3)) + (depth % TagCard)
        removed == SelectSeq(d, LAMBDA e : e.key \notin full)
    IN MapInsert(removed, compressed_code, first_value)

\* the body of `for code in keys` of compress_level, from the n-th key on;
\* the keys whose prefix is in seen_prefixes are passed over (`continue`), so
\* the body goes on at the first key from n whose prefix is not
RECURSIVE CompressKeys(_, _, _, _, _)
CompressKeys(d, keys, n, seen_prefixes, depth) ==
    LET Uniform(neighbours, first_value) ==
            \A m \in 1..Len(neighbours) : neighbours[m].payload = first_value
        Region(at, prefix, neighbours) ==
            IF neighbours.panic THEN [data |-> d, panic |-> TRUE]
            ELSE IF Len(neighbours.result) < 2 ^ (3 * depth)
            THEN CompressKeys(d, keys, at + 1, seen_prefixes, depth)
            ELSE CompressKeys(IF Uniform(neighbours.result,
                                         neighbours.result[1].payload)
                              THEN Collapse(d, neighbours.result, prefix, depth)
                              ELSE d,
                              keys, at + 1, seen_prefixes \cup {prefix}, depth)
        Key(at) ==
            Region(at, prefix_at_depth(keys[at], depth),
                   get_neighbours_prefix(Octree(d, <<>>),
                                         decode_position(keys[at]), depth))
        Unseen(left) ==
            IF left = {} THEN [data |-> d, panic |-> FALSE]
            ELSE Key(CHOOSE at \in left : \A other \in left : at <= other)
    IN Unseen({at \in n..Len(keys) :
                  prefix_at_depth(keys[at], depth) \notin seen_prefixes})

\* compress_level(&mut self, depth)
compress_level(d, depth) ==
    CompressKeys(d, [n \in 1..Len(d) |-> d[n].key], 1, {}, depth)

\* the loop `for i in 1..=depth` of compress, from level i on:
\* apply_mutations; compress_level(i); apply_mutations
RECURSIVE CompressFrom(_, _, _, _)
CompressFrom(self, i, depth, log) ==
    IF i > depth
    THEN [data |-> self.data, mutation_queue |-> self.mutation_queue,
          panic |-> FALSE, log |-> log]
    ELSE LET Second(a, b) ==
                 IF b.panic THEN [b EXCEPT !.log = log \o a.log \o b.log]
                 ELSE CompressFrom(Octree(b.data, b.mutation_queue),
                                   i + 1, depth, log \o a.log \o b.log)
             Level(a, c) ==
                 IF c.panic
                 THEN [data |-> c.data, mutation_queue |-> a.mutation_queue,
                       panic |-> TRUE, log |-> log \o a.log]
                 ELSE Second(a, apply_mutations(Octree(c.data, a.mutation_queue)))
             First(a) ==
                 IF a.panic THEN [a EXCEPT !.log = log \o a.log]
                 ELSE Level(a, compress_level(a.data, i))
         IN First(apply_mutations(self))

\* compress as it would be if it ran no level
compress_nolevels(self, depth) == CompressFrom(self, depth + 1, depth, <<>>)

\* compress(&mut self, depth); assert!(depth < 16) holds for every depth in Depths
compress(self, depth) == CompressFrom(self, 1, depth, <<>>)

\* ------------------------------------------------------------- the behaviours
\* coordinates the producers insert at and remove: the minimum corner of the
\* first 2x2x2 cube, a second cell of that cube, and the last cell of the space
Cells == {<<0, 0, 0>>, <<1, 0, 0>>, <<AxisMod - 1, AxisMod - 1, AxisMod - 1>>}

\* the 8 cells of the aligned 2x2x2 cube whose minimum corner is c
Cube(c) == {<<c[1] + dx, c[2] + dy, c[3] + dz>> : dx \in 0..1, dy \in 0..1, dz \in 0..1}
FirstCube == Cube(<<0, 0, 0>>)
LastCube == Cube(<<AxisMod - 2, AxisMod - 2, AxisMod - 2>>)

\* the store after insert(v, c) for every c of a set and one apply_mutations
RECURSIVE InsertAll(_, _, _)
InsertAll(self, cs, v) ==
    IF cs = {} THEN self
    ELSE LET c == CHOOSE x \in cs : TRUE IN InsertAll(insert(self, v, c), cs \ {c}, v)
Filled(cs, v) == apply_mutations(InsertAll(new, cs, v)).data

\* stores the runs start from: the new store, and stores a caller has filled
\* with one payload over a whole cube
Seeds == {new.data, Filled(FirstCube, 1), Filled(LastCube, 1)}

\* the levels the writer compresses to (assert!(depth < 16))
CompressDepths == 0..(AxisBits - 1)

Call(op, depth, log) == [op |-> op, depth |-> depth, popped |-> Len(log)]

Init ==
    /\ data \in Seeds
    /\ mutation_queue = <<>>
    /\ overflow_checks \in BOOLEAN
    /\ panicked = FALSE
    /\ last = Call("new", 0, <<>>)
    /\ voxels = <<>>

\* a producer thread calls insert(v, p)
Insert(v, p) ==
    /\ ~panicked
    /\ Len(mutation_queue) < MaxQueue
    /\ LET Returned(r) ==
               /\ data' = r.data
               /\ mutation_queue' = r.mutation_queue
       IN Returned(insert(Self, v, p))
    /\ last' = Call("insert", 0, <<>>)
    /\ UNCHANGED <<overflow_checks, panicked, voxels>>

\* a producer thread calls remove(p)
Remove(p) ==
    /\ ~panicked
    /\ Len(mutation_queue) < MaxQueue
    /\ LET Returned(r) ==
               /\ data' = r.data
               /\ mutation_queue' = r.mutation_queue
       IN Returned(remove(Self, p))
    /\ last' = Call("remove", 0, <<>>)
    /\ UNCHANGED <<overflow_checks, panicked, voxels>>

\* the writer calls apply_mutations()
ApplyMutations ==
    /\ ~panicked
    /\ LET Returned(r) ==
               /\ data' = r.data
               /\ mutation_queue' = r.mutation_queue
               /\ panicked' = r.panic
               /\ last' = Call("apply_mutations", 0, r.log)
       IN Returned(apply_mutations(Self))
    /\ UNCHANGED <<overflow_checks, voxels>>

\* the writer calls compress(depth)
Compress(depth) ==
    /\ ~panicked
    /\ LET Returned(r) ==
               /\ data' = r.data
               /\ mutation_queue' = r.mutation_queue
               /\ panicked' = r.panic
               /\ last' = Call("compress", depth, r.log)
       IN Returned(compress(Self, depth))
    /\ UNCHANGED <<overflow_checks, voxels>>

Next ==
    \/ \E v \in Values, p \in Cells : Insert(v, p)
    \/ \E p \in Cells : Remove(p)
    \/ ApplyMutations
    \/ \E depth \in CompressDepths : Compress(depth)

Spec == Init /\ [][Next]_vars

TypeOK ==
    /\ \A n \in 1..Len(data) : data[n].key \in 0..(KeyMod - 1) /\ data[n].value \in Values
    /\ \A n \in 1..(Len(data) - 1) : data[n].key < data[n + 1].key
    /\ Len(mutation_queue) <= MaxQueue
    /\ panicked \in BOOLEAN

\* ------------------------------------------- stores with whole regions filled
\* the 64 cells of the aligned 4x4x4 block whose minimum corner is c
Block(c) ==
    {<<c[1] + dx, c[2] + dy, c[3] + dz>> : dx \in 0..3, dy \in 0..3, dz \in 0..3}
FirstBlock == Block(<<0, 0, 0>>)
\* a 2x2x2 cube of the last octant that is not the last region of its depth
UpperCube == Cube(<<AxisMod \div 2, AxisMod \div 2, AxisMod \div 2>>)

\* the store after the first 2x2x2 cube was filled with payload 1 and collapsed
\* by compress(1), and seven of its cells were then inserted again
Refilled ==
    apply_mutations(
        InsertAll(Octree(compress(Octree(Filled(FirstCube, 1), <<>>), 1).data, <<>>),
                  FirstCube \ {<<1, 1, 1>>}, 1)).data

\* the map after insert(v, c) for every c of a set and one apply_mutations,
\* written down entry by entry in key order
FilledMap(cs, v) ==
    LET keys == {encode_position(c) : c \in cs}
    IN [n \in 1..Cardinality(keys) |->
           [key |-> CHOOSE k \in keys : Cardinality({j \in keys : j < k}) = n - 1,
            value |-> v]]

\* stores a caller has built: a whole 4x4x4 block of one payload, a collapsed
\* cube refilled in part, a cube of the last octant, and a cube short of one
\* cell
RegionSeeds ==
    {FilledMap(FirstBlock, 1),
     Refilled,
     Filled(UpperCube, 1),
     Filled(FirstCube \ {<<1, 1, 1>>}, 1)}

\* coordinates the producers insert at and remove: a cell of the first cube
\* other than its minimum corner, and a cell of the cube of the last octant
RegionCells == {<<1, 1, 1>>, <<AxisMod \div 2 + 1, AxisMod \div 2 + 1, AxisMod \div 2 + 1>>}

RegionInit ==
    /\ data \in RegionSeeds
    /\ mutation_queue = <<>>
    /\ overflow_checks \in BOOLEAN
    /\ panicked = FALSE
    /\ last = Call("new", 0, <<>>)
    /\ voxels = <<>>

RegionNext ==
    \/ \E v \in Values, p \in RegionCells : Insert(v, p)
    \/ \E p \in RegionCells : Remove(p)
    \/ ApplyMutations
    \/ \E depth \in CompressDepths : Compress(depth)

RegionSpec == RegionInit /\ [][RegionNext]_vars

\* ------------------------------------------- the key range on its own
\* a coordinate, a depth and a build drawn
RangeInit ==
    /\ data = new.data
    /\ mutation_queue = new.mutation_queue
    /\ overflow_checks \in BOOLEAN
    /\ panicked = FALSE
    /\ voxels = <<>>
    /\ \E c \in AllCoords, depth \in Depths :
          last = [op |-> "coords", coords |-> c, depth |-> depth,
                  start_code |-> 0, end_code |-> 0, underflow |-> FALSE]

\* the first four statements of get_neighbours_prefix(coords, depth): the
\* subtraction panics on the underflow in a build that checks overflow and
\* wraps in one that does not
KeyRange ==
    /\ last.op = "coords"
    /\ last' = [last EXCEPT
                   !.op = "key_range",
                   !.start_code = PrefixRange(last.coords, last.depth).start_code,
                   !.end_code = PrefixRange(last.coords, last.depth).end_code,
                   !.underflow = PrefixRange(last.coords, last.depth).underflow]
    /\ panicked' = (PrefixRange(last.coords, last.depth).underflow /\ overflow_checks)
    /\ UNCHANGED <<data, mutation_queue, overflow_checks, voxels>>

RangeNext == KeyRange

RangeSpec == RangeInit /\ [][RangeNext]_vars

\* ------------------------------------------------ the cross query on its own
\* a store a caller has filled, and the coordinate the query is made at
CrossInit ==
    /\ data \in Seeds
    /\ mutation_queue = <<>>
    /\ overflow_checks = FALSE
    /\ panicked = FALSE
    /\ voxels = <<>>
    /\ \E c \in AllCoords :
          last = [op |-> "coords", coords |-> c, n_coords |-> <<>>, neighbours |-> <<>>]

\* a reader calls get_neighbours_cross(coords)
GetNeighboursCross ==
    /\ last.op = "coords"
    /\ last' = [last EXCEPT !.op = "get_neighbours_cross",
                            !.n_coords = CrossCoords(last.coords),
                            !.neighbours = get_neighbours_cross(Self, last.coords)]
    /\ UNCHANGED <<data, mutation_queue, overflow_checks, panicked, voxels>>

CrossNext == GetNeighboursCross

CrossSpec == CrossInit /\ [][CrossNext]_vars

\* ------------------------------------------------------- the codec on its own
\* the store variables stay as new() leaves them; `last` records the call made
\* last with its argument and its results
StoreIdle ==
    /\ data = new.data
    /\ mutation_queue = new.mutation_queue
    /\ overflow_checks = FALSE
    /\ panicked = FALSE

CodecInit ==
    /\ StoreIdle
    /\ voxels = <<>>
    /\ \E c \in AllCoords :
          last = [op |-> "coords", coords |-> c, code |-> 0, decoded |-> <<>>]

\* a caller computes encode_position(coords)
EncodePosition ==
    /\ last.op = "coords"
    /\ last' = [last EXCEPT !.op = "encode_position",
                            !.code = encode_position(last.coords)]
    /\ UNCHANGED <<data, mutation_queue, overflow_checks, panicked, voxels>>

\* a caller computes decode_position of the code just produced
DecodePosition ==
    /\ last.op = "encode_position"
    /\ last' = [last EXCEPT !.op = "decode_position",
                            !.decoded = decode_position(last.code)]
    /\ UNCHANGED <<data, mutation_queue, overflow_checks, panicked, voxels>>

CodecNext == EncodePosition \/ DecodePosition

CodecSpec == CodecInit /\ [][CodecNext]_vars

\* ------------------------------------------------------------ the serializer
\* bincode's marker byte for a u16 that does not fit one byte
\* (config::standard() is little-endian with variable-length integers)
U16_BYTE == 251
\* number of values of a u8
ByteMod == 256
\* number of values of a u16
U16Mod == 65536

\* bincode::encode_to_vec(v: u16, config::standard())
encode_to_vec(v) ==
    IF v < U16_BYTE THEN <<v>> ELSE <<U16_BYTE, v % ByteMod, v \div ByteMod>>

\* bincode::decode_from_slice::<u16>(bytes, config::standard())
decode_from_slice(bytes) ==
    IF bytes[1] < U16_BYTE THEN bytes[1] ELSE bytes[2] + ByteMod * bytes[3]

\* while x.len() < 2 { x.reverse(); x.push(0); x.reverse(); }
RECURSIVE PadFront(_)
PadFront(x) == IF Len(x) < 2 THEN PadFront(<<0>> \o x) ELSE x

\* the body of the loop of serialize_to_bytes for one entry, given what
\* decode_position and decode_compression make of its key
SerializeEntry(e) ==
    [position |-> [i \in 1..3 |-> PadFront(encode_to_vec(e.position[i]))],
     compression |-> e.compression,
     payload |-> encode_to_vec(e.payload)]

\* serialize_to_bytes(&self): the three parallel vectors, one index per entry;
\* the map is given as the entries [position, compression, payload] of its
\* keys, ascending
serialize_to_bytes(entries) ==
    [positions |-> [n \in 1..Len(entries) |-> SerializeEntry(entries[n]).position],
     compressions |-> [n \in 1..Len(entries) |-> SerializeEntry(entries[n]).compression],
     payloads |-> [n \in 1..Len(entries) |-> SerializeEntry(entries[n]).payload]]

\* the body of the loop of deserialize_from_bytes: position.x is
\* pos[0][0] as u16 + pos[0][1] as u16, and so for y and z; the entry is
\* inserted under encode_compression(position, compression)
DeserializeEntry(pos, com, pay) ==
    [position |-> [i \in 1..3 |-> (pos[i][1] + pos[i][2]) % U16Mod],
     compression |-> com,
     payload |-> decode_from_slice(pay)]

\* deserialize_from_bytes(&mut self, bytes): the entries of the map that
\* replaces self.data, in the order they are inserted
deserialize_from_bytes(bytes) ==
    [n \in 1..Len(bytes.positions) |->
        DeserializeEntry(bytes.positions[n], bytes.compressions[n], bytes.payloads[n])]

\* coordinates of the stores that are serialized: both sides of the one-byte
\* limit of the encoding, the first value of two bytes, and the largest u16
U16Samples == {0, 1, 250, 251, 256, 65535}
\* payloads of the stores that are serialized (tests::serialization stores 10000u16)
Payloads == {1, 10000}
\* the tags a position can carry: 0, and 1 at the minimum corner of a cube
TagsAt(position) ==
    IF \A i \in 1..3 : position[i] % 2 = 0 THEN {0, 1} ELSE {0}

SerdeInit ==
    /\ StoreIdle
    /\ voxels = <<>>
    /\ \E position \in U16Samples \X U16Samples \X U16Samples, payload \in Payloads :
          \E compression \in TagsAt(position) :
             last = [op |-> "store",
                     entries |-> <<VoxelData(position, compression, payload)>>,
                     bytes |-> <<>>,
                     restored |-> <<>>]

\* a caller computes serialize_to_bytes() of the store
SerializeToBytes ==
    /\ last.op = "store"
    /\ last' = [last EXCEPT !.op = "serialize_to_bytes",
                            !.bytes = serialize_to_bytes(last.entries)]
    /\ UNCHANGED <<data, mutation_queue, overflow_checks, panicked, voxels>>

\* a caller hands the bytes to deserialize_from_bytes
DeserializeFromBytes ==
    /\ last.op = "serialize_to_bytes"
    /\ last' = [last EXCEPT !.op = "deserialize_from_bytes",
                            !.restored = deserialize_from_bytes(last.bytes)]
    /\ UNCHANGED <<data, mutation_queue, overflow_checks, panicked, voxels>>

SerdeNext == SerializeToBytes \/ DeserializeFromBytes

SerdeSpec == SerdeInit /\ [][SerdeNext]_vars

\* ------------------------------------------------------- the pointer octree
\* levels of the pointer octree (size.trailing_zeros() for size = 2^TreeDepth)
TreeDepth == 2
\* SparseVoxelOctree.size
size == 2 ^ TreeDepth

\* a u64 of morton.rs is kept as the set of the positions of its one bits
U64Bits == 0..63
\* the bits of a number below 2^21
BitsOf(n) == {b \in 0..20 : (n \div (2 ^ b)) % 2 = 1}
\* the bits of a hexadecimal literal, given by its digits, the first the highest
HexBits(digits) ==
    {4 * (Len(digits) - k) + b : k \in 1..Len(digits), b \in 0..3} \cap
    {j \in U64Bits :
        \E k \in 1..Len(digits) :
            /\ j \div 4 = Len(digits) - k
            /\ (digits[k] \div (2 ^ (j % 4))) % 2 = 1}
\* x << n on a u64
ShlBits(x, n) == {b + n : b \in x} \cap U64Bits
\* x >> n
ShrBits(x, n) == {b - n : b \in {c \in x : c >= n}}

\* the masks of split_by_3: 0x1fffff, 0x1f00000000ffff, 0x1f0000ff0000ff,
\* 0x100f00f00f00f00f, 0x10c30c30c30c30c3, 0x1249249249249249
SplitMasks ==
    <<HexBits(<<1, 15, 15, 15, 15, 15>>),
      HexBits(<<1, 15, 0, 0, 0, 0, 0, 0, 0, 0, 15, 15, 15, 15>>),
      HexBits(<<1, 15, 0, 0, 0, 0, 15, 15, 0, 0, 0, 0, 15, 15>>),
      HexBits(<<1, 0, 0, 15, 0, 0, 15, 0, 0, 15, 0, 0, 15, 0, 0, 15>>),
      HexBits(<<1, 0, 12, 3, 0, 12, 3, 0, 12, 3, 0, 12, 3, 0, 12, 3>>),
      HexBits(<<1, 2, 4, 9, 2, 4, 9, 2, 4, 9, 2, 4, 9, 2, 4, 9>>)>>

\* x = (x | x << n) & mask
Spread(x, n, mask) == (x \cup ShlBits(x, n)) \cap mask

\* Morton::split_by_3(a)
split_by_3(a) ==
    Spread(Spread(Spread(Spread(Spread(BitsOf(a) \cap SplitMasks[1],
                                       32, SplitMasks[2]),
                                16, SplitMasks[3]),
                         8, SplitMasks[4]),
                  4, SplitMasks[5]),
           2, SplitMasks[6])

\* Morton::encode(x, y, z): the interleaved code shifted left by one
MortonCode_encode(x, y, z) ==
    ShlBits(split_by_3(x) \cup ShlBits(split_by_3(y), 1) \cup ShlBits(split_by_3(z), 2), 1)

\* ((code >> (level * 3)) & 0b111) as usize
ChildIndex(code, level) ==
    LET low == ShrBits(code, level * 3) \cap {0, 1, 2}
    IN (IF 0 \in low THEN 1 ELSE 0) + (IF 1 \in low THEN 2 ELSE 0)
         + (IF 2 \in low THEN 4 ELSE 0)

\* u32::trailing_zeros of a size >= 1
RECURSIVE trailing_zeros(_)
trailing_zeros(n) == IF n % 2 = 1 THEN 0 ELSE 1 + trailing_zeros(n \div 2)

\* Option<usize>::None in a child slot
None == -1
\* u32::MAX, the material of the root (2^32 - 1 in the source; materials are
\* only stored and compared, and the model holds the largest integer it has)
U32_MAX == 2147483647

\* struct Voxel { children, material }; the slots of children are 0..7
Voxel(children, material) == [children |-> children, material |-> material]
\* Voxel::empty()
Voxel_empty == Voxel([c \in 0..7 |-> None], 0)
\* Voxel::is_empty(&self)
is_empty(voxel) == \A c \in 0..7 : voxel.children[c] = None
\* self.voxels[index], the arena being indexed from 0
VoxelAt(arena, index) == arena[index + 1]

\* SparseVoxelOctree::empty(size, ..).voxels
SparseVoxelOctree_empty == <<Voxel([c \in 0..7 |-> None], U32_MAX)>>

\* self.voxels[index].children[child_index] = child
SetChild(arena, index, child_index, child) ==
    [arena EXCEPT ![index + 1].children[child_index] = child]

\* the index as it would be if it were taken one short of the length
new_index_last(arena) == Len(arena) - 1

\* let new_index = self.voxels.len()
new_index(arena) == Len(arena)

\* the loop `for level in (0..depth).rev()` of insert, from `level` down, then
\* the store of the material in the node reached
RECURSIVE InsertWalk(_, _, _, _, _)
InsertWalk(arena, code, level, voxel_index, material) ==
    IF level < 0
    THEN [arena EXCEPT ![voxel_index + 1].material = material]
    ELSE LET Descend(grown, child_index) ==
                 InsertWalk(grown, code, level - 1,
                            VoxelAt(grown, voxel_index).children[child_index],
                            material)
             Grow(child_index) ==
                 IF VoxelAt(arena, voxel_index).children[child_index] = None
                 THEN Descend(Append(SetChild(arena, voxel_index, child_index,
                                              new_index(arena)),
                                     Voxel_empty),
                              child_index)
                 ELSE Descend(arena, child_index)
         IN Grow(ChildIndex(code, level))

\* SparseVoxelOctree::insert(&mut self, x, y, z, material)
SparseVoxelOctree_insert(arena, x, y, z, material) ==
    InsertWalk(arena, MortonCode_encode(x, y, z), trailing_zeros(size) - 1, 0, material)

\* the pruning loop as it would be if it stopped after the first parent
PruneLoop_once(arena, voxel_index, parent_stack) ==
    IF parent_stack = <<>> THEN arena
    ELSE IF is_empty(VoxelAt(arena, voxel_index))
            /\ VoxelAt(arena, voxel_index).material = 0
         THEN SetChild(arena, parent_stack[Len(parent_stack)][1],
                       parent_stack[Len(parent_stack)][2], None)
         ELSE arena

\* the loop `while let Some((parent_idx, child_idx)) = parent_stack.pop()` of
\* remove: unlink the node while it has no children and material 0
RECURSIVE PruneLoop(_, _, _)
PruneLoop(arena, voxel_index, parent_stack) ==
    IF parent_stack = <<>> THEN arena
    ELSE LET Popped(parent_idx, child_idx) ==
                 IF is_empty(VoxelAt(arena, voxel_index))
                    /\ VoxelAt(arena, voxel_index).material = 0
                 THEN PruneLoop(SetChild(arena, parent_idx, child_idx, None),
                                parent_idx,
                                SubSeq(parent_stack, 1, Len(parent_stack) - 1))
                 ELSE arena
         IN Popped(parent_stack[Len(parent_stack)][1],
                   parent_stack[Len(parent_stack)][2])

\* the loop `for level in (0..depth).rev()` of remove, from `level` down:
\* return at a missing child, else clear the material of the node reached and
\* prune
RECURSIVE RemoveDescend(_, _, _, _, _)
RemoveDescend(arena, code, level, voxel_index, parent_stack) ==
    IF level < 0
    THEN PruneLoop([arena EXCEPT ![voxel_index + 1].material = 0],
                   voxel_index, parent_stack)
    ELSE LET Step(child_index) ==
                 IF VoxelAt(arena, voxel_index).children[child_index] = None
                 THEN arena
                 ELSE RemoveDescend(arena, code, level - 1,
                                    VoxelAt(arena, voxel_index).children[child_index],
                                    Append(parent_stack, <<voxel_index, child_index>>))
         IN Step(ChildIndex(code, level))

\* SparseVoxelOctree::remove(&mut self, x, y, z)
SparseVoxelOctree_remove(arena, x, y, z) ==
    RemoveDescend(arena, MortonCode_encode(x, y, z), trailing_zeros(size) - 1, 0, <<>>)

\* the loop `for level in (0..depth).rev()` of get, from `level` down: None at
\* a missing child, else the index of the node reached
RECURSIVE GetDescend(_, _, _, _)
GetDescend(arena, code, level, voxel_index) ==
    IF level < 0 THEN voxel_index
    ELSE LET Step(next) ==
                 IF next = None THEN None
                 ELSE GetDescend(arena, code, level - 1, next)
         IN Step(VoxelAt(arena, voxel_index).children[ChildIndex(code, level)])

\* the index of the node get(x, y, z) returns, or None
TerminalIndex(arena, x, y, z) ==
    GetDescend(arena, MortonCode_encode(x, y, z), trailing_zeros(size) - 1, 0)

\* SparseVoxelOctree::get(&self, x, y, z): <<>> for None, <<voxel>> for Some
SparseVoxelOctree_get(arena, x, y, z) ==
    IF TerminalIndex(arena, x, y, z) = None THEN <<>>
    ELSE <<VoxelAt(arena, TerminalIndex(arena, x, y, z))>>

\* ---------------------------------------------------------------- raycast
\* f32::INFINITY, the value of 1.0 / 0.0; it is only compared, and stands
\* above every finite distance of the rays drawn here
F32_INFINITY == 1000000
\* SparseVoxelOctree.origin, in half units
origin == <<0, 0, 0>>

\* Positions and sizes are held in half units and distances in quarter units,
\* so that the f32 arithmetic of the rays drawn (odd half-unit origins,
\* direction components 0, +-1, +-2) is exact and is done here on integers.
\* (bound - ray_origin) * (1.0 / ray_direction) on one axis
SlabTime(bound, o, d) ==
    IF d = 0 THEN (IF bound > o THEN F32_INFINITY ELSE -F32_INFINITY)
    ELSE IF d > 0 THEN (2 * (bound - o)) \div d
    ELSE -((2 * (bound - o)) \div (-d))

Min2(a, b) == IF a <= b THEN a ELSE b

\* ray_aabb_intersection: Some(t_hit) as the distance, or None
ray_aabb_intersection(ray_origin, ray_direction, min_aabb, max_aabb) ==
    LET t1 == [i \in 1..3 |-> SlabTime(min_aabb[i], ray_origin[i], ray_direction[i])]
        t2 == [i \in 1..3 |-> SlabTime(max_aabb[i], ray_origin[i], ray_direction[i])]
        tmin == Max2(Max2(Min2(t1[1], t2[1]), Min2(t1[2], t2[2])), Min2(t1[3], t2[3]))
        tmax == Min2(Min2(Max2(t1[1], t2[1]), Max2(t1[2], t2[2])), Max2(t1[3], t2[3]))
    IN IF tmax >= Max2(tmin, 0) THEN Max2(tmin, 0) ELSE None

\* child_min = voxel_min + (bx, by, bz) * half for a child slot
ChildMin(voxel_min, child, half) ==
    <<voxel_min[1] + (child % 2) * half,
      voxel_min[2] + ((child \div 2) % 2) * half,
      voxel_min[3] + ((child \div 4) % 2) * half>>

\* the entry `(voxel_child_index, child_min, half, distance)` the loop over
\* `child in 0..8` makes for one slot, the distance None when the ray misses
ChildHit(arena, ray_origin, ray_direction, voxel_index, voxel_min, half, child) ==
    LET Entry(child_min) ==
            <<VoxelAt(arena, voxel_index).children[child], child_min, half,
              ray_aabb_intersection(ray_origin, ray_direction, child_min,
                                    [i \in 1..3 |-> child_min[i] + half])>>
    IN Entry(ChildMin(voxel_min, child, half))

\* child_hits after the loop: present children the ray hits at a distance
\* <= f32::MAX, in slot order
ChildHits(arena, ray_origin, ray_direction, voxel_index, voxel_min, half) ==
    SelectSeq([n \in 1..8 |->
                  ChildHit(arena, ray_origin, ray_direction, voxel_index,
                           voxel_min, half, n - 1)],
              LAMBDA h : h[1] # None /\ h[4] # None /\ h[4] < F32_INFINITY)

\* child_hits.sort_by(|a, b| a.3.partial_cmp(&b.3).unwrap()): a stable sort,
\* ascending in the distance
RECURSIVE sort_by(_)
sort_by(hits) ==
    IF hits = <<>> THEN <<>>
    ELSE LET Place(sorted, e) ==
                 LET k == Cardinality({n \in 1..Len(sorted) : sorted[n][4] <= e[4]})
                 IN SubSeq(sorted, 1, k) \o <<e>> \o SubSeq(sorted, k + 1, Len(sorted))
         IN Place(sort_by(SubSeq(hits, 1, Len(hits) - 1)), hits[Len(hits)])

\* a push of the sorted hits as they stand
rev_none(hits) == hits

\* child_hits.iter().rev()
rev(hits) == [n \in 1..Len(hits) |-> hits[Len(hits) + 1 - n]]

\* one iteration of `while let Some(..) = stack.pop()` on an interior node:
\* the stack after `stack.extend(child_hits.iter().rev().cloned())`
PushChildren(arena, ray_origin, ray_direction, stack) ==
    LET Top(e) ==
            SubSeq(stack, 1, Len(stack) - 1) \o
            rev(sort_by(ChildHits(arena, ray_origin, ray_direction,
                                  e[1], e[2], e[3] \div 2)))
    IN Top(stack[Len(stack)])

\* ------------------------------------------- filling and emptying the volume
\* the orders the cells of the volume are visited in: cell number k of
\* 0..size^3-1 under each order
Volume == size * size * size
Orders == {"xyz", "zyx", "xyz_rev", "zyx_rev", "stride", "stride_rev"}
Ordinal(order, k) ==
    CASE order = "xyz" -> k
      [] order = "zyx" -> k
      [] order = "xyz_rev" -> Volume - 1 - k
      [] order = "zyx_rev" -> Volume - 1 - k
      [] order = "stride" -> (5 * k + 3) % Volume
      [] order = "stride_rev" -> (5 * (Volume - 1 - k) + 3) % Volume
CellAt(order, k) ==
    LET n == Ordinal(order, k)
    IN IF order \in {"zyx", "zyx_rev"}
       THEN <<n % size, (n \div size) % size, n \div (size * size)>>
       ELSE <<n \div (size * size), (n \div size) % size, n % size>>

\* SparseVoxelOctree::empty(size, 0, 0, 0), the orders of the two passes drawn
StressInit ==
    /\ StoreIdle
    /\ voxels = SparseVoxelOctree_empty
    /\ \E inserts \in Orders, removes \in Orders :
          last = [op |-> "empty", inserts |-> inserts, removes |-> removes,
                  inserted |-> 0, removed |-> 0, total_voxels |-> 1]

\* the next svo.insert(x, y, z, 1) of the filling pass; total_voxels is
\* svo.voxels.len() as read after the pass
StressInsert ==
    /\ last.inserted < Volume
    /\ LET Cell(c) ==
               /\ voxels' = SparseVoxelOctree_insert(voxels, c[1], c[2], c[3], 1)
               /\ last' = [last EXCEPT !.op = "insert",
                                       !.inserted = @ + 1,
                                       !.total_voxels = Len(voxels')]
       IN Cell(CellAt(last.inserts, last.inserted))
    /\ UNCHANGED <<data, mutation_queue, overflow_checks, panicked>>

\* the next svo.remove(x, y, z) of the emptying pass
StressRemove ==
    /\ last.inserted = Volume
    /\ last.removed < Volume
    /\ LET Cell(c) ==
               /\ voxels' = SparseVoxelOctree_remove(voxels, c[1], c[2], c[3])
               /\ last' = [last EXCEPT !.op = "remove", !.removed = @ + 1]
       IN Cell(CellAt(last.removes, last.removed))
    /\ UNCHANGED <<data, mutation_queue, overflow_checks, panicked>>

StressNext == StressInsert \/ StressRemove

StressSpec == StressInit /\ [][StressNext]_vars

\* ------------------------------------------------------- casting one ray
\* svo.insert(x, y, z, 1) for each cell of a sequence, in order
RECURSIVE InsertCells(_, _)
InsertCells(arena, cells) ==
    IF cells = <<>> THEN arena
    ELSE LET Rest(grown) ==
                 IF Len(grown) > 0 THEN InsertCells(grown, Tail(cells)) ELSE grown
         IN Rest(SparseVoxelOctree_insert(arena, cells[1][1], cells[1][2], cells[1][3], 1))

\* the cells with x and y among 0, 1, size-2, size-1 and z among 0, 1: at
\* size 4 they fill every node the tree can hold
DenseCells ==
    [k \in 1..32 |->
        <<<<0, 1, size - 2, size - 1>>[((k - 1) \div 8) + 1],
          <<0, 1, size - 2, size - 1>>[(((k - 1) \div 2) % 4) + 1],
          (k - 1) % 2>>]

\* the trees a ray is cast into: empty, one cell, two cells under neighbouring
\* and under opposite children of the root, four cells under one child, a
\* scattered set, and the dense set
Scenes ==
    {InsertCells(SparseVoxelOctree_empty, cells) :
        cells \in {<<>>,
                   <<<<0, 0, 0>>>>,
                   <<<<0, 0, 0>>, <<0, 0, 1>>>>,
                   <<<<0, 0, 0>>, <<size - 1, size - 1, 1>>>>,
                   <<<<0, 0, 0>>, <<1, 0, 0>>, <<0, 1, 0>>, <<1, 1, 0>>>>,
                   <<<<1, 1, 0>>, <<size - 2, 0, 1>>, <<0, size - 1, 0>>, <<1, size - 2, 1>>>>,
                   DenseCells}}

\* ray origins, per axis in half units: in front of the volume, inside it off
\* every cell boundary, and behind it
RayOrigins == {-1, 3, 2 * size + 1}
\* ray direction components
RayDirections == {-1, 0, 1, 2}

\* a tree and a ray; raycast has not been entered
RayInit ==
    /\ StoreIdle
    /\ voxels \in Scenes
    /\ \E o \in RayOrigins \X RayOrigins \X RayOrigins,
          d \in RayDirections \X RayDirections \X RayDirections :
          last = [op |-> "ray", ray_origin |-> o, ray_direction |-> d,
                  stack |-> <<>>, visited |-> <<>>, hit |-> None]

\* raycast up to the loop: None when the ray misses the root box, else the
\* stack holds the root
RaycastEnter ==
    /\ last.op = "ray"
    /\ LET Entered(entry_distance) ==
               IF entry_distance = None
               THEN last' = [last EXCEPT !.op = "none"]
               ELSE last' = [last EXCEPT !.op = "loop",
                                         !.stack = <<<<0, origin, 2 * size, entry_distance>>>>]
       IN Entered(ray_aabb_intersection(last.ray_origin, last.ray_direction, origin,
                                        [i \in 1..3 |-> origin[i] + 2 * size]))
    /\ UNCHANGED <<data, mutation_queue, overflow_checks, panicked, voxels>>

\* one iteration of the loop: the popped node is returned when it has no
\* children, else its hit children are pushed
RaycastPop ==
    /\ last.op = "loop"
    /\ last.stack # <<>>
    /\ LET Popped(e) ==
               IF is_empty(VoxelAt(voxels, e[1]))
               THEN last' = [last EXCEPT !.op = "hit",
                                         !.stack = SubSeq(@, 1, Len(@) - 1),
                                         !.visited = Append(@, e),
                                         !.hit = e[1]]
               ELSE last' = [last EXCEPT !.stack = PushChildren(voxels, last.ray_origin,
                                                                last.ray_direction, @),
                                         !.visited = Append(@, e)]
       IN Popped(last.stack[Len(last.stack)])
    /\ UNCHANGED <<data, mutation_queue, overflow_checks, panicked, voxels>>

\* the loop ends on an empty stack and raycast returns None
RaycastExhaust ==
    /\ last.op = "loop"
    /\ last.stack = <<>>
    /\ last' = [last EXCEPT !.op = "none"]
    /\ UNCHANGED <<data, mutation_queue, overflow_checks, panicked, voxels>>

RayNext == RaycastEnter \/ RaycastPop \/ RaycastExhaust

RaySpec == RayInit /\ [][RayNext]_vars

\* ------------------------------------------- free inserts and removes
\* the most calls made on one tree
MaxOps == 4
\* the materials a caller stores; 0 is the material remove leaves
Materials == {0, 1, 2}
\* the cells the calls are made at: two that share their parent, one half the
\* size above the first on z, one in another child of the root, the last cell
ArenaCells ==
    {<<0, 0, 0>>, <<1, 0, 0>>, <<0, 0, size \div 2>>, <<size \div 2, 0, 0>>,
     <<size - 1, size - 1, size - 1>>}

\* SparseVoxelOctree::empty(size, 0, 0, 0)
ArenaInit ==
    /\ StoreIdle
    /\ voxels = SparseVoxelOctree_empty
    /\ last = [op |-> "empty", ops |-> 0, len_before |-> 1]

\* svo.insert(x, y, z, material)
ArenaInsert ==
    /\ last.ops < MaxOps
    /\ \E c \in ArenaCells, material \in Materials :
          voxels' = SparseVoxelOctree_insert(voxels, c[1], c[2], c[3], material)
    /\ last' = [op |-> "insert", ops |-> last.ops + 1, len_before |-> Len(voxels)]
    /\ UNCHANGED <<data, mutation_queue, overflow_checks, panicked>>

\* svo.remove(x, y, z)
ArenaRemove ==
    /\ last.ops < MaxOps
    /\ \E c \in ArenaCells :
          voxels' = SparseVoxelOctree_remove(voxels, c[1], c[2], c[3])
    /\ last' = [op |-> "remove", ops |-> last.ops + 1, len_before |-> Len(voxels)]
    /\ UNCHANGED <<data, mutation_queue, overflow_checks, panicked>>

ArenaNext == ArenaInsert \/ ArenaRemove

ArenaSpec == ArenaInit /\ [][ArenaNext]_vars

\* ------------------------------------------- two inserts and their gets
\* the coordinates of the tree
TreeCoords == (0..(size - 1)) \X (0..(size - 1)) \X (0..(size - 1))

\* SparseVoxelOctree::empty(size), two distinct coordinates and two materials
\* drawn
AgreeInit ==
    /\ StoreIdle
    /\ voxels = SparseVoxelOctree_empty
    /\ \E p \in TreeCoords, q \in TreeCoords, m1 \in Materials, m2 \in Materials :
          /\ p # q
          /\ last = [op |-> "empty", p |-> p, q |-> q, m1 |-> m1, m2 |-> m2,
                     got_p |-> <<>>, got_q |-> <<>>]

\* svo.insert(p, m1)
AgreeInsertFirst ==
    /\ last.op = "empty"
    /\ voxels' = SparseVoxelOctree_insert(voxels, last.p[1], last.p[2], last.p[3], last.m1)
    /\ last' = [last EXCEPT !.op = "insert_p"]
    /\ UNCHANGED <<data, mutation_queue, overflow_checks, panicked>>

\* svo.insert(q, m2)
AgreeInsertSecond ==
    /\ last.op = "insert_p"
    /\ voxels' = SparseVoxelOctree_insert(voxels, last.q[1], last.q[2], last.q[3], last.m2)
    /\ last' = [last EXCEPT !.op = "insert_q"]
    /\ UNCHANGED <<data, mutation_queue, overflow_checks, panicked>>

\* svo.get(p) and svo.get(q)
AgreeGet ==
    /\ last.op = "insert_q"
    /\ last' = [last EXCEPT
                   !.op = "get",
                   !.got_p = SparseVoxelOctree_get(voxels, last.p[1], last.p[2], last.p[3]),
                   !.got_q = SparseVoxelOctree_get(voxels, last.q[1], last.q[2], last.q[3])]
    /\ UNCHANGED <<data, mutation_queue, overflow_checks, panicked, voxels>>

AgreeNext == AgreeInsertFirst \/ AgreeInsertSecond \/ AgreeGet

AgreeSpec == AgreeInit /\ [][AgreeNext]_vars

\* ------------------------------------------------------------------ the claims
\* the store a step ends in
SelfNext == Octree(data', mutation_queue')

\* a drain that returned
Drained == last'.op = "apply_mutations" /\ ~panicked'

\* pos lies in the aligned cube of side 2^depth that contains c
InCube(pos, c, depth) ==
    \A i \in 1..3 : pos[i] \div Pow2[depth] = c[i] \div Pow2[depth]

\* the coordinates the queries are probed at: the first cube, the last cube,
\* and cells of the cubes next to the first
Probes == FirstCube \cup LastCube \cup {<<2, 0, 0>>, <<3, 3, 3>>, <<4, 4, 4>>}

\* the entries of a map as the VoxelData a query reports for them
Reported(d) ==
    {VoxelData(decode_position(d[n].key), decode_compression(d[n].key), d[n].value) :
        n \in 1..Len(d)}

SeqSet(seq) == {seq[n] : n \in 1..Len(seq)}

\* C1: whenever apply_mutations returns, every Insert(v, p) it drained that no
\* later queued operation on p follows is visible: get(p) is present with payload v.
C1_InsertGetAgreement ==
    [][Drained =>
        \A n \in 1..Len(mutation_queue) :
            LET op == mutation_queue[n]
            IN (/\ op.kind = "Insert"
                /\ \A m \in (n + 1)..Len(mutation_queue) :
                      mutation_queue[m].position # op.position)
               => /\ get(SelfNext, op.position) # <<>>
                  /\ get(SelfNext, op.position)[1].payload = op.value]_vars

\* C2: whenever apply_mutations returns from a queue that ends with
\* Insert(v, p), Remove(p), get(p) is absent.
C2_RemoveLaw ==
    [][(/\ Drained
        /\ Len(mutation_queue) >= 2
        /\ mutation_queue[Len(mutation_queue) - 1].kind = "Insert"
        /\ mutation_queue[Len(mutation_queue)].kind = "Remove"
        /\ mutation_queue[Len(mutation_queue)].position
              = mutation_queue[Len(mutation_queue) - 1].position)
       => get(SelfNext, mutation_queue[Len(mutation_queue)].position) = <<>>]_vars

\* the compacted entries of d whose region encloses p
Enclosing(d, p) ==
    {n \in 1..Len(d) :
        /\ decode_compression(d[n].key) >= 1
        /\ prefix_at_depth(d[n].key, decode_compression(d[n].key))
             = prefix_at_depth(encode_position(p), decode_compression(d[n].key))}

\* the map Remove(p) is to leave: without the full-resolution key of p if it is
\* stored, else without the smallest compacted entry enclosing p, else unchanged
RemoveExpected(d, p) ==
    IF encode_position(p) \in MapKeys(d) THEN MapRemove(d, encode_position(p))
    ELSE IF Enclosing(d, p) = {} THEN d
    ELSE LET n == CHOOSE i \in Enclosing(d, p) :
                    \A j \in Enclosing(d, p) :
                        decode_compression(d[i].key) <= decode_compression(d[j].key)
         IN MapRemove(d, d[n].key)

\* C3: draining a single Remove(p) deletes at most the full-resolution key of
\* p or, failing that, the smallest compacted entry enclosing p; every other
\* entry is left as it was.
C3_RemoveFrame ==
    [][(/\ Drained
        /\ Len(mutation_queue) = 1
        /\ mutation_queue[1].kind = "Remove")
       => data' = RemoveExpected(data, mutation_queue[1].position)]_vars

\* C4: get(c) is absent at every coordinate c whose full-resolution (tag 0)
\* key is not stored, the minimum corner of a collapsed region included.
C4_GetOnlyFullResolution ==
    \A c \in AllCoords :
        encode_position(c) \notin MapKeys(data) => get(Self, c) = <<>>

\* C5: a step of insert or remove appends exactly one operation to the queue
\* and leaves the map, and so the result of every get, prefix and area query,
\* as it was.
C5_EnqueueOnly ==
    [][last'.op \in {"insert", "remove"} =>
        /\ data' = data
        /\ Len(mutation_queue') = Len(mutation_queue) + 1
        /\ SubSeq(mutation_queue', 1, Len(mutation_queue)) = mutation_queue
        /\ \A c \in Cells :
              /\ get(SelfNext, c) = get(Self, c)
              /\ \A depth \in Depths :
                    get_neighbours_prefix(SelfNext, c, depth)
                        = get_neighbours_prefix(Self, c, depth)
              /\ \A radius \in 0..MaxRadius :
                    get_neighbours_area(SelfNext, c, radius)
                        = get_neighbours_area(Self, c, radius)]_vars

\* C5 witness: operations are pending on a non-empty map, and the Insert last
\* enqueued is not visible to get
C5_Witness ==
    /\ last.op = "insert"
    /\ Len(mutation_queue) >= 2
    /\ data # <<>>
    /\ get(Self, mutation_queue[Len(mutation_queue)].position) = <<>>

\* every operation of q is an Insert, and no two are at the same coordinate
DistinctInserts(q) ==
    /\ \A n \in 1..Len(q) : q[n].kind = "Insert"
    /\ \A n, m \in 1..Len(q) : n # m => q[n].position # q[m].position

\* C6: whatever the producers have enqueued, in whatever order their pushes
\* interleaved, an apply_mutations that returns has popped exactly as many
\* operations as were queued and leaves the queue empty; a queue of Inserts
\* always lets it return, and when the Inserts are at pairwise distinct
\* coordinates get of each coordinate returns the value inserted there.
C6_NoLostOp ==
    [][last'.op = "apply_mutations" =>
        /\ (\A n \in 1..Len(mutation_queue) : mutation_queue[n].kind = "Insert")
              => ~panicked'
        /\ ~panicked' =>
              /\ mutation_queue' = <<>>
              /\ last'.popped = Len(mutation_queue)
              /\ DistinctInserts(mutation_queue) =>
                    \A n \in 1..Len(mutation_queue) :
                        get(SelfNext, mutation_queue[n].position)
                            = <<VoxelData(mutation_queue[n].position, 0,
                                          mutation_queue[n].value)>>]_vars

\* C6 witness: a drain has popped two operations and two cells hold the two
\* different values inserted
C6_Witness ==
    /\ last.op = "apply_mutations"
    /\ last.popped >= 2
    /\ ~panicked
    /\ mutation_queue = <<>>
    /\ \E p, q \in Cells :
          /\ p # q
          /\ get(Self, p) = <<VoxelData(p, 0, 1)>>
          /\ get(Self, q) = <<VoxelData(q, 0, 2)>>

\* the map after the first n operations of q, applied one by one in the order
\* they were enqueued
RECURSIVE ApplyInOrder(_, _, _)
ApplyInOrder(d, q, n) ==
    IF n = 0 THEN d ELSE ApplyOp(ApplyInOrder(d, q, n - 1), q[n]).data

\* C7: an apply_mutations that returns leaves the map obtained by applying
\* the queued operations one by one in enqueue order; of two queued operations
\* on one coordinate the later wins: Insert(a, p), Insert(b, p) gives
\* get(p) = b, Remove(p), Insert(v, p) gives get(p) = v, and Insert(v, p),
\* Remove(p) leaves no full-resolution entry at p.
C7_Fifo ==
    [][Drained =>
        /\ data' = ApplyInOrder(data, mutation_queue, Len(mutation_queue))
        /\ (/\ Len(mutation_queue) = 2
            /\ mutation_queue[1].position = mutation_queue[2].position)
           => IF mutation_queue[2].kind = "Insert"
              THEN get(SelfNext, mutation_queue[2].position)
                       = <<VoxelData(mutation_queue[2].position, 0,
                                     mutation_queue[2].value)>>
              ELSE encode_position(mutation_queue[2].position)
                       \notin MapKeys(data')]_vars

\* C7 witness: a drain of two operations has left value 2 in a cell of a map
\* that holds nothing else (Insert(1, p), Insert(2, p) and Remove(p),
\* Insert(2, p) on the new store end here)
C7_Witness ==
    /\ last.op = "apply_mutations"
    /\ last.popped = 2
    /\ ~panicked
    /\ \E p \in Cells : data = <<[key |-> encode_position(p), value |-> 2]>>

\* the result r of a prefix query is exactly the stored entries, leaf or
\* compacted, whose position lies in the aligned cube of side 2^depth
\* containing c, each once
ExactCube(r, c, depth) ==
    /\ SeqSet(r) = {v \in Reported(data) : InCube(v.position, c, depth)}
    /\ Len(r) = Cardinality(SeqSet(r))

\* C8: for every c and every depth, get_neighbours_prefix(c, depth) returns,
\* and what it returns is exactly the stored entries, leaf or compacted, whose
\* position lies in the aligned cube of side 2^depth containing c.
C8_PrefixContainment ==
    \A c \in Probes, depth \in Depths :
        /\ ~get_neighbours_prefix(Self, c, depth).panic
        /\ ExactCube(get_neighbours_prefix(Self, c, depth).result, c, depth)

\* the containment every build keeps: a prefix query that returns reports
\* exactly the entries of the cube
PrefixExactWhenReturned ==
    \A c \in Probes, depth \in Depths :
        ~get_neighbours_prefix(Self, c, depth).panic
            => ExactCube(get_neighbours_prefix(Self, c, depth).result, c, depth)

\* C9: an area query that returns reports exactly the stored entries within
\* Chebyshev distance radius of c.
C9_AreaExact ==
    \A c \in Probes, radius \in 0..MaxRadius :
        LET r == get_neighbours_area(Self, c, radius)
        IN ~r.panic =>
            SeqSet(r.result)
                = {v \in Reported(data) : chebyshev_distance(c, v.position) <= radius}

\* the minimum corners of the aligned 2x2x2 cubes
CubeCorners == {c \in AllCoords : \A i \in 1..3 : c[i] % 2 = 0}

\* the entries of d in the depth-1 region of the cube with minimum corner c0
InRegion(d, c0) == SelectSeq(d, LAMBDA e : InCube(decode_position(e.key), c0, 1))

\* the region of the cube at c0 holds the 8 full-resolution entries of the
\* cube, all with payload v, and nothing else
FullCube(d, c0, v) ==
    LET region == InRegion(d, c0)
    IN /\ Len(region) = 8
       /\ \A n \in 1..Len(region) :
             /\ region[n].value = v
             /\ \E c \in Cube(c0) : region[n].key = encode_position(c)

\* C10: when a 2x2x2 cube holds its 8 cells with one payload v (and no queued
\* operation is at a cell of the cube), a compress(depth), depth >= 1, that
\* returns leaves fewer than 8 entries in the cube's region, and the depth-1
\* prefix query from each of the 8 cells reports payload v and nothing else.
C10_CompactionCorrect ==
    [][(last'.op = "compress" /\ last'.depth >= 1 /\ ~panicked') =>
        \A c0 \in CubeCorners, v \in Values :
            (/\ FullCube(data, c0, v)
             /\ \A n \in 1..Len(mutation_queue) :
                   mutation_queue[n].position \notin Cube(c0))
            => /\ Len(InRegion(data', c0)) < 8
               /\ \A c \in Cube(c0) :
                     LET r == get_neighbours_prefix(SelfNext, c, 1)
                     IN /\ ~r.panic
                        /\ r.result # <<>>
                        /\ \A n \in 1..Len(r.result) : r.result[n].payload = v]_vars

\* C10 witness: compress(2) has returned and the first cube is one compacted
\* entry of tag 1, none of its 8 full-resolution keys being stored
C10_Witness ==
    /\ last.op = "compress"
    /\ last.depth = 2
    /\ ~panicked
    /\ encode_compression(<<0, 0, 0>>, 1) \in MapKeys(data)
    /\ \A c \in FirstCube : encode_position(c) \notin MapKeys(data)

\* the entries of d that carry a compression tag >= 1
Compacted(d) == SelectSeq(d, LAMBDA e : decode_compression(e.key) >= 1)

\* C11: in every state a compress(maxDepth) has returned in, running
\* compress(maxDepth) again with nothing enqueued in between returns and
\* leaves the map exactly as it is.
C11_CompressIdempotent ==
    (last.op = "compress" /\ ~panicked) =>
        /\ ~compress(Self, last.depth).panic
        /\ compress(Self, last.depth).data = data

\* C11 witness: a compress(depth >= 1) that drained operations has returned,
\* the map holds a compacted entry beside full-resolution ones, and a second
\* run leaves it as it is
C11_Witness ==
    /\ last.op = "compress"
    /\ last.depth >= 1
    /\ last.popped >= 1
    /\ ~panicked
    /\ Compacted(data) # <<>>
    /\ Len(Compacted(data)) < Len(data)
    /\ compress(Self, last.depth).data = data

\* C12: decode_position(encode_position(c)) = c for every coordinate c, and
\* no other coordinate encodes to the key of c.
C12_CodecRoundTrip ==
    last.op = "decode_position" =>
        /\ last.decoded = last.coords
        /\ \A c \in AllCoords : c # last.coords => encode_position(c) # last.code

\* C12 witness: a coordinate with three different axes, the top bit of the
\* third set, has been encoded to a key with its top bit set and decoded back
C12_Witness ==
    /\ last.op = "decode_position"
    /\ last.coords[1] # last.coords[2]
    /\ last.coords[2] # last.coords[3]
    /\ last.coords[1] # last.coords[3]
    /\ last.code >= Pow2[KeyBits - 1]
    /\ last.decoded = last.coords

\* C13: deserialize_from_bytes(serialize_to_bytes(S)) holds the entries of
\* S: the same positions and tags (so the same keys) with the same payloads.
C13_SerializationRoundTrip ==
    last.op = "deserialize_from_bytes" => last.restored = last.entries

\* the round trip as far as it holds: an entry whose coordinates all fit one
\* byte of the encoding comes back as it was
RoundTripBelowMarker ==
    (/\ last.op = "deserialize_from_bytes"
     /\ \A i \in 1..3 : last.entries[1].position[i] < U16_BYTE)
    => last.restored = last.entries

\* C14: once every cell of the size^3 volume has been inserted and then every
\* cell removed, the root has no children and the arena is as long as it was
\* after the insertions.
C14_PruneLaw ==
    (last.op = "remove" /\ last.removed = Volume) =>
        /\ is_empty(VoxelAt(voxels, 0))
        /\ Len(voxels) = last.total_voxels

\* C14 witness: the volume was filled in one order and emptied in another,
\* the arena grew below the root by interior nodes and leaves, and the root
\* is empty again
C14_Witness ==
    /\ last.op = "remove"
    /\ last.removed = Volume
    /\ last.inserts # last.removes
    /\ Len(voxels) > 1 + 8
    /\ is_empty(VoxelAt(voxels, 0))

\* the node whose child slot holds `index`
ParentOf(arena, index) ==
    CHOOSE p \in 0..(Len(arena) - 1) :
        \E c \in 0..7 : VoxelAt(arena, p).children[c] = index

\* two nodes below the root hanging from one parent
Siblings(arena, a, b) ==
    a # 0 /\ b # 0 /\ a # b /\ ParentOf(arena, a) = ParentOf(arena, b)

\* the distances at which the ray enters the boxes of the leaves below a node,
\* every box tested on its own
RECURSIVE LeafEntries(_, _, _, _, _, _)
LeafEntries(arena, ray_origin, ray_direction, index, voxel_min, voxel_size) ==
    IF is_empty(VoxelAt(arena, index))
    THEN {ray_aabb_intersection(ray_origin, ray_direction, voxel_min,
                                [i \in 1..3 |-> voxel_min[i] + voxel_size])} \ {None}
    ELSE UNION {LeafEntries(arena, ray_origin, ray_direction,
                            VoxelAt(arena, index).children[c],
                            ChildMin(voxel_min, c, voxel_size \div 2),
                            voxel_size \div 2) :
                   c \in {k \in 0..7 : VoxelAt(arena, index).children[k] # None}}

\* a node and the nodes above it, up to the root
RECURSIVE PathTo(_, _)
PathTo(arena, index) ==
    IF index = 0 THEN {0} ELSE {index} \cup PathTo(arena, ParentOf(arena, index))

\* the distance of the leaf returned
HitEntry == last.visited[Len(last.visited)][4]

\* the leaf returned is entered no later than any leaf the ray touches; this
\* is not so when children of one node are entered at one distance (a ray
\* through the corner they share) and are then visited in slot order
LeafNearestOfAll ==
    last.op = "hit" =>
        \A t \in LeafEntries(voxels, last.ray_origin, last.ray_direction,
                             0, origin, 2 * size) : HitEntry <= t

\* C15: of two children of one node that the ray both hits, the one entered
\* at the smaller distance is popped first: nodes already visited were entered
\* no later than their siblings visited after them or still on the stack, and
\* a sibling nearer the top of the stack was entered no later than one below
\* it; and the leaf returned is entered no later than any leaf under a node
\* that was entered after its sibling on the way to the leaf returned.
C15_NearestFirst ==
    /\ \A i \in 1..Len(last.visited), j \in 1..Len(last.visited) :
          (i < j /\ Siblings(voxels, last.visited[i][1], last.visited[j][1]))
              => last.visited[i][4] <= last.visited[j][4]
    /\ \A i \in 1..Len(last.visited), j \in 1..Len(last.stack) :
          Siblings(voxels, last.visited[i][1], last.stack[j][1])
              => last.visited[i][4] <= last.stack[j][4]
    /\ \A i \in 1..Len(last.stack), j \in 1..Len(last.stack) :
          (i < j /\ Siblings(voxels, last.stack[i][1], last.stack[j][1]))
              => last.stack[j][4] <= last.stack[i][4]
    /\ last.op = "hit" =>
          \A i \in 1..Len(last.visited), j \in 1..Len(last.stack) :
              (/\ last.visited[i][1] \in PathTo(voxels, last.hit)
               /\ Siblings(voxels, last.visited[i][1], last.stack[j][1])
               /\ last.visited[i][4] < last.stack[j][4])
                  => \A t \in LeafEntries(voxels, last.ray_origin, last.ray_direction,
                                          last.stack[j][1], last.stack[j][2],
                                          last.stack[j][3]) : HitEntry <= t

\* C15 witness: the ray hit two children of one node at different distances,
\* the nearer was visited and held no leaf on the ray, and the leaf returned
\* lies under the farther one
C15_Witness ==
    /\ last.op = "hit"
    /\ \E i \in 1..Len(last.visited), j \in 1..Len(last.visited) :
          /\ i < j
          /\ Siblings(voxels, last.visited[i][1], last.visited[j][1])
          /\ last.visited[i][4] < last.visited[j][4]

\* the depth-L prefixes under which a map holds entries
RegionPrefixes(d, L) == {prefix_at_depth(d[n].key, L) : n \in 1..Len(d)}

\* the entries of a map in the depth-L region of prefix p
RegionOf(d, p, L) == SelectSeq(d, LAMBDA e : prefix_at_depth(e.key, L) = p)

\* the region holds exactly 2^(3L) entries, all full-resolution, of one payload
ExactFull(entries, L) ==
    /\ Len(entries) = 2 ^ (3 * L)
    /\ \A n \in 1..Len(entries) :
          /\ decode_compression(entries[n].key) = 0
          /\ entries[n].value = entries[1].value

\* the map a call compress(depth) holds when its pass at level L starts
PrePass(self, L) == apply_mutations(compress(self, L - 1)).data

\* the regions a pass at level L over d changes
Changed(d, after, L) ==
    {p \in RegionPrefixes(d, L) \cup RegionPrefixes(after, L) :
        RegionOf(after, p, L) # RegionOf(d, p, L)}

\* a pass at level L changes only regions holding at least 2^(3L) entries of
\* one payload: what the test `neighbours.len() < 2^(3L)` lets through
PassChangesOnlyUniform ==
    [][(last'.op = "compress" /\ ~panicked') =>
        \A L \in 1..last'.depth :
            \A p \in Changed(PrePass(Self, L), compress_level(PrePass(Self, L), L).data, L) :
                /\ Len(RegionOf(PrePass(Self, L), p, L)) >= 2 ^ (3 * L)
                /\ \A n \in 1..Len(RegionOf(PrePass(Self, L), p, L)) :
                      RegionOf(PrePass(Self, L), p, L)[n].value
                          = RegionOf(PrePass(Self, L), p, L)[1].value]_vars

\* C16: in a compress that returns, the pass at each level L changes a depth-L
\* region only if the region held exactly 2^(3L) entries, all full-resolution
\* and of one payload, when the pass started; every other region keeps all its
\* entries.
C16_PassFrame ==
    [][(last'.op = "compress" /\ ~panicked') =>
        \A L \in 1..last'.depth :
            \A p \in Changed(PrePass(Self, L), compress_level(PrePass(Self, L), L).data, L) :
                ExactFull(RegionOf(PrePass(Self, L), p, L), L)]_vars

\* the map holds exactly the 64 full-resolution cells of one aligned 4x4x4
\* block, all of one payload
IsFullBlock(d) ==
    /\ Len(d) = 64
    /\ \A n \in 1..Len(d) :
          /\ decode_compression(d[n].key) = 0
          /\ prefix_at_depth(d[n].key, 2) = prefix_at_depth(d[1].key, 2)
          /\ d[n].value = d[1].value

\* a compress(2) that returned, called on a full block with nothing queued
BlockCompressed ==
    /\ last'.op = "compress"
    /\ last'.depth = 2
    /\ ~panicked'
    /\ mutation_queue = <<>>
    /\ IsFullBlock(data)

\* compress(2) leaves a full block as its eight 2x2x2 cubes, one tag-1 entry
\* each: the pass at level 2 finds 8 entries, fewer than 64
BlockLeftAsCubes ==
    [][BlockCompressed =>
        /\ Len(data') = 8
        /\ \A n \in 1..Len(data') :
              /\ decode_compression(data'[n].key) = 1
              /\ prefix_at_depth(data'[n].key, 2) = prefix_at_depth(data[1].key, 2)
              /\ data'[n].value = data[1].value]_vars

\* C17: compress(2) on a store holding exactly the 64 full-resolution cells of
\* an aligned 4x4x4 block, all of one payload, leaves a single entry, keyed at
\* the block's depth-2 prefix with compression tag 2 and holding that payload.
C17_MultiLevel ==
    [][BlockCompressed =>
        data' = <<[key |-> Shl(prefix_at_depth(data[1].key, 2), CtrlBits + 3 * 2) + 2,
                   value |-> data[1].value]>>]_vars

\* the only entry a map holds in the depth-L region of pos is the region's
\* compacted entry of tag L
SoleCompacted(d, pos, L) ==
    /\ Len(RegionOf(d, prefix_at_depth(encode_position(pos), L), L)) = 1
    /\ decode_compression(RegionOf(d, prefix_at_depth(encode_position(pos), L), L)[1].key) = L

\* C18: when a drain pops a single Remove(c) and the depth-L region of c holds
\* nothing but its compacted entry, the entry is deleted: the map then holds no
\* entry in the region, and the depth-L prefix query from every cell of the
\* region returns no entry.
C18_WholeRegionRemoval ==
    [][(/\ last'.op = "apply_mutations"
        /\ Len(mutation_queue) = 1
        /\ mutation_queue[1].kind = "Remove")
       => \A L \in 1..(AxisBits - 1) :
             SoleCompacted(data, mutation_queue[1].position, L)
                 => /\ RegionOf(data',
                                prefix_at_depth(encode_position(mutation_queue[1].position), L),
                                L) = <<>>
                    /\ \A c \in {x \in AllCoords : InCube(x, mutation_queue[1].position, L)} :
                          get_neighbours_prefix(SelfNext, c, L)
                              = [panic |-> FALSE, result |-> <<>>]]_vars

\* C18 witness: a drain has applied a Remove to a map that held one compacted
\* entry and holds none now
C18_Witness ==
    /\ last.op = "apply_mutations"
    /\ last.popped = 1
    /\ data = <<>>

\* C19: every key of the map has bits [4,16) zero and a compression tag L in
\* 0..15 in bits [0,4); when L > 0 the L least-significant Morton triplets,
\* bits [16, 16+3L), are zero.
C19_KeyLayout ==
    \A n \in 1..Len(data) :
        /\ (data[n].key % CtrlMod) \div TagCard = 0
        /\ decode_compression(data[n].key) \in 0..15
        /\ decode_compression(data[n].key) > 0 =>
              /\ decode_compression(data[n].key) <= AxisBits
              /\ Shr(data[n].key, CtrlBits) % Pow2[3 * decode_compression(data[n].key)] = 0

\* C19 witness: after a compress the map holds a compacted entry of a region
\* other than the first next to a full-resolution entry
C19_Witness ==
    /\ last.op = "compress"
    /\ \E n \in 1..Len(data) :
          /\ decode_compression(data[n].key) > 0
          /\ Shr(data[n].key, CtrlBits) > 0
    /\ \E n \in 1..Len(data) : decode_compression(data[n].key) = 0

\* a compress that returned has popped every operation that was queued when it
\* started and left the queue empty, and its map is the one the level passes
\* make of the map with those operations applied
QueueApplied ==
    /\ mutation_queue' = <<>>
    /\ last'.popped = Len(mutation_queue)
    /\ data' = compress(Octree(apply_mutations(Self).data, <<>>), last'.depth).data

\* C20 as stated: whenever compress(maxDepth) returns, for any maxDepth, every
\* operation queued before it started has been applied and the queue is empty.
C20_NoLostMutations ==
    [][(last'.op = "compress" /\ ~panicked') => QueueApplied]_vars

\* C20 for maxDepth >= 1: whenever compress(maxDepth) returns, every operation
\* queued before it started has been applied and the queue is empty; compress
\* holds the store exclusively, so no operation is queued while it runs.
C20_DrainedFromLevelOne ==
    [][(last'.op = "compress" /\ last'.depth >= 1 /\ ~panicked') => QueueApplied]_vars

\* C20 witness: a compress to a level >= 1 has returned after popping a full
\* queue, and the map holds entries
C20_Witness ==
    /\ last.op = "compress"
    /\ last.depth >= 1
    /\ last.popped = MaxQueue
    /\ ~panicked
    /\ mutation_queue = <<>>
    /\ data # <<>>

\* n differs from c by exactly 1 on exactly one axis
UnitStep(c, n) ==
    \E i \in 1..3 :
        /\ AbsDiff(c[i], n[i]) = 1
        /\ \A j \in (1..3) \ {i} : c[j] = n[j]

\* no axis of c is at either end of its range
Interior(c) == \A i \in 1..3 : c[i] > 0 /\ c[i] < AxisMod - 1

\* the six results are get of the six looked-up coordinates
CrossIsGet ==
    last.op = "get_neighbours_cross" =>
        /\ Len(last.neighbours) = 6
        /\ \A k \in 1..6 : last.neighbours[k] = get(Self, last.n_coords[k])

\* away from the ends of the axes the six looked-up coordinates are the six
\* unit-distance neighbours
CrossExactInside ==
    (last.op = "get_neighbours_cross" /\ Interior(last.coords)) =>
        /\ \A k \in 1..6 : UnitStep(last.coords, last.n_coords[k])
        /\ \A j \in 1..6, k \in 1..6 : j # k => last.n_coords[j] # last.n_coords[k]

\* C21: get_neighbours_cross(c) returns 6 results, each the get of a
\* coordinate that differs from c by exactly 1 on exactly one axis, for every
\* c, the coordinates with an axis at 0 or at the axis maximum included.
C21_CrossUnitDistance ==
    last.op = "get_neighbours_cross" =>
        /\ Len(last.neighbours) = 6
        /\ \A k \in 1..6 :
              /\ UnitStep(last.coords, last.n_coords[k])
              /\ last.neighbours[k] = get(Self, last.n_coords[k])

\* the (parent, child-slot) pairs of the arena that hold index n
Referrers(arena, n) ==
    {pc \in (0..(Len(arena) - 1)) \X (0..7) :
        VoxelAt(arena, pc[1]).children[pc[2]] = n}

\* every child index points further along the arena than its parent
ChildrenAfterParents ==
    \A i \in 0..(Len(voxels) - 1), c \in 0..7 :
        VoxelAt(voxels, i).children[c] # None => VoxelAt(voxels, i).children[c] > i

\* C22: after any sequence of insert and remove the arena has not shrunk,
\* slot 0 is the root and no child index names it, every present child index
\* is an index of the arena, and no node is held by more than one
\* (parent, child-slot) pair.
C22_ArenaInvariant ==
    /\ Len(voxels) >= last.len_before
    /\ Len(voxels) >= 1
    /\ VoxelAt(voxels, 0).material = U32_MAX
    /\ Referrers(voxels, 0) = {}
    /\ \A i \in 0..(Len(voxels) - 1), c \in 0..7 :
          VoxelAt(voxels, i).children[c] # None =>
              VoxelAt(voxels, i).children[c] \in 0..(Len(voxels) - 1)
    /\ \A n \in 0..(Len(voxels) - 1) : Cardinality(Referrers(voxels, n)) <= 1

\* a remove has unlinked a node, which stays in the arena, and a later insert
\* has pushed a new one
C22_Witness ==
    /\ last.op = "insert"
    /\ Len(voxels) > last.len_before
    /\ \E n \in 1..(Len(voxels) - 1) : Referrers(voxels, n) = {}

\* p and q differ only by half the size on z: encode shifts the interleaved
\* code left by one, and the walk reads depth triplets from bit 0, so the top
\* z bit is never read
SameDescent(p, q) ==
    /\ p[1] = q[1]
    /\ p[2] = q[2]
    /\ p[3] % (size \div 2) = q[3] % (size \div 2)

\* both gets return a node, and the two coordinates end at distinct nodes
\* exactly when they differ in something the walk reads
TerminalNodesApart ==
    last.op = "get" =>
        /\ Len(last.got_p) = 1
        /\ Len(last.got_q) = 1
        /\ (TerminalIndex(voxels, last.p[1], last.p[2], last.p[3])
              = TerminalIndex(voxels, last.q[1], last.q[2], last.q[3]))
           <=> SameDescent(last.p, last.q)

\* the two gets agree with the two inserts whenever the coordinates differ in
\* something the walk reads; when they do not, both return the second material
AgreeUnlessSameDescent ==
    last.op = "get" =>
        /\ last.got_q[1].material = last.m2
        /\ last.got_p[1].material =
              (IF SameDescent(last.p, last.q) THEN last.m2 ELSE last.m1)

\* C23: for two distinct coordinates p, q of the tree, after insert(p, m1)
\* then insert(q, m2), get(p) returns a node with material m1 and get(q) a
\* node with material m2, and the two coordinates end at distinct nodes.
C23_InsertGetAgreement ==
    last.op = "get" =>
        /\ Len(last.got_p) = 1
        /\ Len(last.got_q) = 1
        /\ last.got_p[1].material = last.m1
        /\ last.got_q[1].material = last.m2
        /\ TerminalIndex(voxels, last.p[1], last.p[2], last.p[3])
             # TerminalIndex(voxels, last.q[1], last.q[2], last.q[3])

\* c lies in the last region of side 2^depth: its prefix bits are all ones
LastRegion(c, depth) == \A i \in 1..3 : c[i] >= AxisMod - 2 ^ depth

\* the subtraction underflows exactly in the last region of the depth, and
\* nowhere else; start_code never exceeds the key width
UnderflowInLastRegionOnly ==
    last.op = "key_range" =>
        /\ last.underflow <=> LastRegion(last.coords, last.depth)
        /\ panicked <=> (overflow_checks /\ LastRegion(last.coords, last.depth))
        /\ last.start_code < KeyMod

\* a computation that returns has start <= end, and its range is the keys
\* of the region: the wrapped end of a build without overflow checks is the
\* largest key
RangeRightWhenReturned ==
    (last.op = "key_range" /\ ~panicked) =>
        /\ last.start_code <= last.end_code
        /\ last.end_code = last.start_code + 2 ^ (CtrlBits + 3 * last.depth) - 1

\* C24: for every coordinate and every depth the key-range computation of
\* get_neighbours_prefix produces start <= end without overflow or
\* underflow, the coordinates of the last region of the depth included.
C24_KeyRangeNoOverflow ==
    last.op = "key_range" =>
        /\ ~last.underflow
        /\ ~panicked
        /\ last.start_code <= last.end_code

====
